---- MODULE Spec2Model ----
(***************************************************************************)
(* A model of the IB_MCP server core: the surface configurator of          *)
(* mcp_server/config.py (module filtering and description rendering) and   *)
(* the proxy endpoints of mcp_server/routers/alerts.py and scanner.py.     *)
(*                                                                         *)
(* Text that the code takes apart or puts together character by character  *)
(* (the raw tag strings, the XML payload) is a sequence of one-string      *)
(* pieces; text that the code only passes along is a TLA+ string.          *)
(***************************************************************************)
EXTENDS Integers, Sequences, FiniteSets, TLC

\* Most characters the raw INCLUDED_TAGS and EXCLUDED_TAGS strings hold together.
MaxTagChars == 4
\* Longest list of conditions in an alert request.
MaxConditions == 1
\* Longest list of filters in a scanner request.
MaxFilters == 2

VARIABLES
    cfg_pc,             \* position in config.py: "start", "filtered", "rendered"
    ALL_MODULES,        \* the catalog: a sequence of <<name, description>> in insertion order
    INCLUDED_TAGS,      \* os.getenv("INCLUDED_TAGS"): [isNone, s]
    EXCLUDED_TAGS,      \* os.getenv("EXCLUDED_TAGS"): [isNone, s]
    display_modules,    \* the visible modules: a sequence of <<name, description>>
    FINAL_DESCRIPTION   \* the rendered description: a sequence of text pieces

cfg_vars == <<cfg_pc, ALL_MODULES, INCLUDED_TAGS, EXCLUDED_TAGS, display_modules,
              FINAL_DESCRIPTION>>

VARIABLES
    pc,         \* position of the inbound call: "idle", "init" (awaiting the
                \* prerequisite's response), "await" (awaiting the primary's), "done"
    endpoint,   \* the handler serving the inbound call, "" when idle
    body,       \* the validated request: path parameters and body model
    calls,      \* the upstream requests this inbound call has issued, in order
    responses,  \* what the upstream answered to them, in order
    result      \* what the handler ended with: a returned value or a raised exception

proxy_vars == <<pc, endpoint, body, calls, responses, result>>

vars == <<cfg_vars, proxy_vars>>

Range(f) == {f[i] : i \in DOMAIN f}

SeqsUpTo(S, n) == UNION {[1..k -> S] : k \in 0..n}

(***************************************************************************)
(* config.py: the environment and the catalog                              *)
(***************************************************************************)

\* The characters raw tag strings are drawn from.
Chars == {"a", "b", ",", " ", "\"", "\n"}

\* Code points, as Python's str comparison orders characters.
CharCode(c) ==
    CASE c = "\n" -> 10
      [] c = " "  -> 32
      [] c = "\"" -> 34
      [] c = ","  -> 44
      [] c = "a"  -> 97
      [] c = "b"  -> 98

\* Characters str.strip() removes.
Whitespace == {" ", "\n"}

NoEnv == [isNone |-> TRUE, s |-> <<>>]
EnvStr(x) == [isNone |-> FALSE, s |-> x]

\* What os.getenv can return for a tag variable when the string, if set, is x.
EnvOf(x) == IF x = <<>> THEN {NoEnv, EnvStr(x)} ELSE {EnvStr(x)}

\* Python truthiness of an Optional[str]: None and "" are falsy.
Truthy(raw) == ~raw.isNone /\ raw.s # <<>>

ModA == <<"a">>
ModB == <<"b">>
ModAB == <<"a", "b">>

Desc(name) ==
    CASE name = ModA -> "Create, modify, delete alerts."
      [] name = ModB -> "Run market scanners."
      [] name = ModAB -> "Place orders."

Entry(name) == <<name, Desc(name)>>

\* The catalogs the startup is run on, in several insertion orders.
Catalogs ==
    { <<>>,
      <<Entry(ModA), Entry(ModB)>>,
      <<Entry(ModB), Entry(ModA)>>,
      <<Entry(ModB), Entry(ModAB), Entry(ModA)>> }

base_description == "\nA comprehensive FastAPI wrapper for the Interactive Brokers Web API. \n"

module_list_header == "\n**Available Modules:**\n\n"

\* str.replace(ch, ''): every occurrence of one character removed.
Replace(s, ch) ==
    LET keep(c) == c # ch IN SelectSeq(s, keep)

HasComma(s) == \E i \in 1..Len(s) : s[i] = ","

FirstComma(s) == CHOOSE i \in 1..Len(s) : s[i] = "," /\ \A j \in 1..(i-1) : s[j] # ","

\* str.split(','): the pieces between commas, empty pieces kept.
RECURSIVE Split(_)
Split(s) ==
    IF ~HasComma(s) THEN <<s>>
    ELSE LET i == FirstComma(s)
         IN <<SubSeq(s, 1, i - 1)>> \o Split(SubSeq(s, i + 1, Len(s)))

RECURSIVE LStrip(_)
LStrip(s) ==
    IF s # <<>> /\ Head(s) \in Whitespace THEN LStrip(Tail(s)) ELSE s

RECURSIVE RStrip(_)
RStrip(s) ==
    IF s # <<>> /\ s[Len(s)] \in Whitespace THEN RStrip(SubSeq(s, 1, Len(s) - 1)) ELSE s

\* str.lstrip() where the code has str.strip().
Strip_LeftOnly(s) == LStrip(s)

\* str.strip(): leading and trailing whitespace removed.
Strip(s) == RStrip(LStrip(s))

\* cleaned = raw.replace('\n', '').replace('"', '')
Cleaned(s) == Replace(Replace(s, "\n"), "\"")

\* {tag.strip() for tag in cleaned.split(',') if tag.strip()}
TagSet(s) ==
    {Strip(tag) : tag \in {t \in Range(Split(Cleaned(s))) : Strip(t) # <<>>}}

\* `if INCLUDED_TAGS is not None:` where the code has `if INCLUDED_TAGS:`.
IncludeBase_IsNotNone(catalog, inc) ==
    IF ~inc.isNone
    THEN LET INCLUDED_TAGS_SET == TagSet(inc.s)
             keep(item) == item[1] \in INCLUDED_TAGS_SET
         IN SelectSeq(catalog, keep)
    ELSE catalog

\* if INCLUDED_TAGS: ... else: display_modules = ALL_MODULES.copy()
IncludeBase(catalog, inc) ==
    IF Truthy(inc)
    THEN LET INCLUDED_TAGS_SET == TagSet(inc.s)
             keep(item) == item[1] \in INCLUDED_TAGS_SET
         IN SelectSeq(catalog, keep)
    ELSE catalog

\* if EXCLUDED_TAGS: ... (no change otherwise)
ExcludeFrom(modules, exc) ==
    IF Truthy(exc)
    THEN LET EXCLUDED_TAGS_SET == TagSet(exc.s)
             keep(item) == item[1] \notin EXCLUDED_TAGS_SET
         IN SelectSeq(modules, keep)
    ELSE modules

\* Python's str < str: lexicographic by code point, a proper prefix first.
RECURSIVE StrLess(_, _)
StrLess(x, y) ==
    IF y = <<>> THEN FALSE
    ELSE IF x = <<>> THEN TRUE
    ELSE IF Head(x) # Head(y) THEN CharCode(Head(x)) < CharCode(Head(y))
    ELSE StrLess(Tail(x), Tail(y))

\* One item put in its place in a sorted sequence of items (compared by name;
\* dict keys are unique, so the description never decides).
RECURSIVE InsertSorted(_, _)
InsertSorted(item, sorted) ==
    IF sorted = <<>> THEN <<item>>
    ELSE IF StrLess(item[1], Head(sorted)[1]) THEN <<item>> \o sorted
    ELSE <<Head(sorted)>> \o InsertSorted(item, Tail(sorted))

RECURSIVE SortItems(_)
SortItems(items) ==
    IF items = <<>> THEN <<>>
    ELSE InsertSorted(Head(items), SortItems(Tail(items)))

\* display_modules.items() where the code has sorted(display_modules.items()).
Sorted_InsertionOrder(items) == items

\* sorted(display_modules.items())
Sorted(items) == SortItems(items)

\* f"* **{name}**: {desc}\n"
ModuleLine(item) == <<"* **">> \o item[1] \o <<"**: ", item[2], "\n">>

RECURSIVE ModuleLines(_)
ModuleLines(items) ==
    IF items = <<>> THEN <<>>
    ELSE ModuleLine(Head(items)) \o ModuleLines(Tail(items))

\* module_list_str: the header, then one line per item of the sorted items.
module_list_str(modules) == <<module_list_header>> \o ModuleLines(Sorted(modules))

\* base_description + module_list_str
RenderDescription(modules) == <<base_description>> \o module_list_str(modules)

\* config.py lines 69-85: the visible modules.
FilterModules ==
    /\ cfg_pc = "start"
    /\ display_modules' = ExcludeFrom(IncludeBase(ALL_MODULES, INCLUDED_TAGS), EXCLUDED_TAGS)
    /\ cfg_pc' = "filtered"
    /\ UNCHANGED <<ALL_MODULES, INCLUDED_TAGS, EXCLUDED_TAGS, FINAL_DESCRIPTION>>
    /\ UNCHANGED proxy_vars

\* config.py lines 87-94: the description.
BuildDescription ==
    /\ cfg_pc = "filtered"
    /\ FINAL_DESCRIPTION' = RenderDescription(display_modules)
    /\ cfg_pc' = "rendered"
    /\ UNCHANGED <<ALL_MODULES, INCLUDED_TAGS, EXCLUDED_TAGS, display_modules>>
    /\ UNCHANGED proxy_vars

(***************************************************************************)
(* routers: Python values                                                  *)
(***************************************************************************)

\* Scalars of the request and response bodies.
None == [t |-> "None", s |-> "", n |-> 0]
PyStr(x) == [t |-> "str", s |-> x, n |-> 0]
PyInt(x) == [t |-> "int", s |-> "", n |-> x]
PyBool(x) == [t |-> "bool", s |-> "", n |-> IF x THEN 1 ELSE 0]

\* A dict is a function from its keys; {} is the function with no keys.
EmptyDict == [k \in {} |-> None]

\* JSON values a handler returns: an object (a dict of scalars) or an array.
JObject(d) == [t |-> "object", d |-> d]
JArray == [t |-> "array", d |-> EmptyDict]

BASE_URL == "BASE_URL"

(***************************************************************************)
(* routers: the upstream                                                   *)
(***************************************************************************)

\* Status codes the upstream answers with.
Statuses == {200, 204, 302, 404, 500}

\* Body texts the upstream answers with.
TextAlert == "{\"id\":7}"
TextList == "[]"
TextLikeRequestError == "{\"error\":\"Request Error\",\"detail\":\"timed out\"}"
TextLikeApiError ==
    "{\"error\":\"IBKR API Error\",\"status_code\":404,\"detail\":\"Not Found\"}"
TextPlain == "Not Found"
TextEmpty == ""
TextXml == "<ScanParameterResponse/>"

BodyTexts ==
    {TextAlert, TextList, TextLikeRequestError, TextLikeApiError, TextPlain, TextEmpty, TextXml}

\* str(exc) of the transport failures.
TransportMessages == {"timed out", "All connection attempts failed"}

HttpResponse(status, text) == [kind |-> "http", status |-> status, text |-> text, msg |-> ""]
TransportFailure(msg) == [kind |-> "transport", status |-> 0, text |-> "", msg |-> msg]

\* Every way an awaited upstream request can end.
Outcomes ==
    {HttpResponse(st, tx) : st \in Statuses, tx \in BodyTexts}
        \cup {TransportFailure(m) : m \in TransportMessages}

\* response.json(): the value a body text decodes to, or a decoding error.
JsonLoads(text) ==
    CASE text = TextAlert -> [ok |-> TRUE, value |-> JObject("id" :> PyInt(7))]
      [] text = TextList -> [ok |-> TRUE, value |-> JArray]
      [] text = TextLikeRequestError ->
            [ok |-> TRUE,
             value |-> JObject(("error" :> PyStr("Request Error"))
                               @@ ("detail" :> PyStr("timed out")))]
      [] text = TextLikeApiError ->
            [ok |-> TRUE,
             value |-> JObject(("error" :> PyStr("IBKR API Error"))
                               @@ ("status_code" :> PyInt(404))
                               @@ ("detail" :> PyStr("Not Found")))]
      [] OTHER -> [ok |-> FALSE, value |-> JArray]

(***************************************************************************)
(* routers: what a handler ends with                                       *)
(***************************************************************************)

NoResult == [kind |-> "none", json |-> JArray, content |-> "", media_type |-> "", exc |-> ""]

\* return <a JSON value>
Return(value) ==
    [kind |-> "return", json |-> value, content |-> "", media_type |-> "", exc |-> ""]

\* return Response(content=..., media_type=...)
ReturnResponse(content, media_type) ==
    [kind |-> "Response", json |-> JArray, content |-> content,
     media_type |-> media_type, exc |-> ""]

\* An exception no except clause of the handler catches.
Raise(exc) ==
    [kind |-> "raise", json |-> JArray, content |-> "", media_type |-> "", exc |-> exc]

\* response.raise_for_status() raises HTTPStatusError unless the status is 2xx.
RaiseForStatus(o) == o.kind = "http" /\ o.status \notin 200..299

\* The try block leaves through one of the two except clauses.
Failed(o) == o.kind = "transport" \/ RaiseForStatus(o)

\* except httpx.HTTPStatusError as exc: return {...}
HTTPStatusErrorEnvelope(o) ==
    JObject(("error" :> PyStr("IBKR API Error"))
            @@ ("status_code" :> PyInt(o.status))
            @@ ("detail" :> PyStr(o.text)))

\* A transport envelope built like the upstream one, with a status_code key.
RequestErrorEnvelope_WithStatus(o) ==
    JObject(("error" :> PyStr("Request Error"))
            @@ ("status_code" :> None)
            @@ ("detail" :> PyStr(o.msg)))

\* except httpx.RequestError as exc: return {...}
RequestErrorEnvelope(o) ==
    JObject(("error" :> PyStr("Request Error")) @@ ("detail" :> PyStr(o.msg)))

\* The two except clauses of every handler.
Except(o) ==
    IF o.kind = "transport"
    THEN Return(RequestErrorEnvelope(o))
    ELSE Return(HTTPStatusErrorEnvelope(o))

\* return response.json()
ReturnJson(o) ==
    LET decoded == JsonLoads(o.text)
    IN IF decoded.ok THEN Return(decoded.value) ELSE Raise("JSONDecodeError")

\* raise_for_status(); return response.json(); with the except clauses.
JsonEnd(o) == IF Failed(o) THEN Except(o) ELSE ReturnJson(o)

\* raise_for_status(); return Response(content=response.text, ...); with the
\* except clauses.
XmlEnd(o) ==
    IF Failed(o) THEN Except(o) ELSE ReturnResponse(o.text, "application/xml")

(***************************************************************************)
(* routers: request models                                                 *)
(***************************************************************************)

\* A model instance: its scalar fields and its list-of-model fields.
Model(fields, lists) == [fields |-> fields, lists |-> lists]

AccountIds == {"U1234567"}
AlertIds == {"9876"}

\* ConditionModel: timeZone and triggerMethod are optional.
ConditionModel(timeZone, triggerMethod) ==
    ("type" :> PyInt(3)) @@ ("conidex" :> PyStr("265598@SMART")) @@ ("operator" :> PyStr(">="))
    @@ ("value" :> PyStr("175")) @@ ("logicBind" :> PyStr("and"))
    @@ ("timeZone" :> timeZone) @@ ("triggerMethod" :> triggerMethod)

ConditionModels ==
    {ConditionModel(tz, tm) : tz \in {None, PyStr("US/Eastern")}, tm \in {None, PyStr("last")}}

\* AlertRequest: orderId is optional.
AlertRequest(orderId, conditions) ==
    Model(("orderId" :> orderId) @@ ("alertName" :> PyStr("Price Alert for IBM"))
          @@ ("alertMessage" :> PyStr("IBM crossed 175")) @@ ("alertActive" :> PyInt(1))
          @@ ("tif" :> PyStr("GTC")) @@ ("outsideRth" :> PyBool(FALSE))
          @@ ("iTtif" :> PyBool(FALSE)),
          "conditions" :> conditions)

AlertRequests ==
    {AlertRequest(o, c) : o \in {None, PyInt(5)}, c \in SeqsUpTo(ConditionModels, MaxConditions)}

\* AlertActivationRequest: no optional field.
AlertActivationRequest(alertActive) ==
    Model(("alertId" :> PyInt(9876)) @@ ("alertActive" :> alertActive), EmptyDict)

AlertActivationRequests == {AlertActivationRequest(PyInt(a)) : a \in {0, 1}}

\* HmdsScannerRequest: filters defaults to None.
HmdsScannerRequest(filters) ==
    Model(("instrument" :> PyStr("STK")) @@ ("locations" :> PyStr("STK.US.MAJOR"))
          @@ ("scanCode" :> PyStr("TOP_PERC_GAIN")) @@ ("secType" :> PyStr("STK"))
          @@ ("filters" :> filters),
          EmptyDict)

HmdsScannerRequests == {HmdsScannerRequest(f) : f \in {None, PyStr("price>1")}}

\* body.dict(): every field, the None ones too.
Dict(model) == [fields |-> model.fields, lists |-> model.lists]

DropNone(d) == [k \in {x \in DOMAIN d : d[x] # None} |-> d[k]]

\* body.dict(exclude_none=True): no None field, in nested models neither.
DictExcludeNone(model) ==
    [fields |-> DropNone(model.fields),
     lists |-> [k \in DOMAIN model.lists |->
                  [i \in DOMAIN model.lists[k] |-> DropNone(model.lists[k][i])]]]

NoJson == [fields |-> EmptyDict, lists |-> EmptyDict]

(***************************************************************************)
(* routers: the scanner request and its XML                                *)
(***************************************************************************)

\* Texts a scanner field can hold: plain ones, and ones that carry markup.
PlainInstrument == <<"STK">>
MarkupInstrument == <<"STK", "</instrument>", "<instrument>", "FUT">>
PlainName == <<"volumeAbove">>
MarkupName ==
    <<"a", "</name>", "<value>", "1", "</value>", "</item>", "<item>", "<name>", "b">>

\* FilterItem.value is Any: an int or a str here.
IntValue(n) == [t |-> "int", n |-> n, s |-> <<>>]
StrValue(s) == [t |-> "str", n |-> 0, s |-> s]

FilterItems ==
    {[name |-> nm, value |-> v] :
        nm \in {PlainName, MarkupName}, v \in {IntValue(10000), StrValue(<<"1">>)}}

NoFilter == [isNone |-> TRUE, items |-> <<>>]
FilterList(items) == [isNone |-> FALSE, items |-> items]

ScannerSubscriptions ==
    {[instrument |-> i, type |-> <<"TOP_PERC_GAIN">>, locationCode |-> <<"STK.US.MAJOR">>,
      filter |-> f] :
        i \in {PlainInstrument, MarkupInstrument},
        f \in {NoFilter} \cup {FilterList(x) : x \in SeqsUpTo(FilterItems, MaxFilters)}}

\* f"{value}": str() of the value.
Format(v) == IF v.t = "int" THEN <<ToString(v.n)>> ELSE v.s

\* f"<item><name>{item.name}</name><value>{item.value}</value></item>"
ItemXml(item) ==
    <<"<item>", "<name>">> \o item.name \o <<"</name>", "<value>">>
        \o Format(item.value) \o <<"</value>", "</item>">>

RECURSIVE ItemsXml(_)
ItemsXml(items) ==
    IF items = <<>> THEN <<>> ELSE ItemXml(Head(items)) \o ItemsXml(Tail(items))

\* if body.filter: a list that is neither None nor empty.
FilterTruthy(f) == ~f.isNone /\ f.items # <<>>

\* xml_string of run_scanner.
ScannerXml(b) ==
    <<"<ScannerSubscription>", "<instrument>">> \o b.instrument
        \o <<"</instrument>", "<type>">> \o b.type
        \o <<"</type>", "<locationCode>">> \o b.locationCode
        \o <<"</locationCode>">>
        \o (IF FilterTruthy(b.filter)
            THEN <<"<filter>">> \o ItemsXml(b.filter.items) \o <<"</filter>">>
            ELSE <<>>)
        \o <<"</ScannerSubscription>">>

(***************************************************************************)
(* routers: upstream requests                                              *)
(***************************************************************************)

Request(method, path, timeout, kind, json, content) ==
    [method |-> method, path |-> path, timeout |-> timeout, kind |-> kind,
     json |-> json, content |-> content]

\* client.get(url, timeout=...), client.delete(url, timeout=...)
Bare(method, path, timeout) == Request(method, path, timeout, "none", NoJson, <<>>)

\* client.post(url, json=..., timeout=...)
PostJson(path, json, timeout) == Request("POST", path, timeout, "json", json, <<>>)

\* client.post(url, content=..., headers={"Content-Type": "application/xml"}, timeout=...)
PostXml(path, content, timeout) == Request("POST", path, timeout, "xml", NoJson, content)

HmdsInitPath == <<BASE_URL, "/hmds/auth/init">>
HmdsScannerPath == <<BASE_URL, "/hmds/scanner">>

\* No inbound call is being served.
NoCall ==
    /\ pc = "idle"
    /\ endpoint = ""
    /\ body = <<>>
    /\ calls = <<>>
    /\ responses = <<>>
    /\ result = NoResult

\* The handler `ep` starts on request `b` and awaits its first upstream request.
Begin(ep, b, call, at) ==
    /\ endpoint' = ep
    /\ body' = b
    /\ calls' = <<call>>
    /\ responses' = <<>>
    /\ result' = NoResult
    /\ pc' = at
    /\ UNCHANGED cfg_vars

\* The awaited request ends with outcome o and the handler with r.
End(o, r) ==
    /\ responses' = Append(responses, o)
    /\ result' = r
    /\ pc' = "done"
    /\ UNCHANGED <<endpoint, body, calls, cfg_vars>>

(***************************************************************************)
(* routers/alerts.py                                                       *)
(***************************************************************************)

get_alerts(accountId) ==
    /\ pc = "idle"
    /\ Begin("get_alerts", [accountId |-> accountId],
          Bare("GET", <<BASE_URL, "/iserver/account/", accountId, "/alerts">>, 10), "await")

get_alerts_end(o) ==
    /\ pc = "await"
    /\ endpoint = "get_alerts"
    /\ End(o, JsonEnd(o))

create_or_modify_alert(accountId, b) ==
    /\ pc = "idle"
    /\ Begin("create_or_modify_alert", [accountId |-> accountId, body |-> b],
          PostJson(<<BASE_URL, "/iserver/account/", accountId, "/alert">>,
                   DictExcludeNone(b), 10), "await")

create_or_modify_alert_end(o) ==
    /\ pc = "await"
    /\ endpoint = "create_or_modify_alert"
    /\ End(o, JsonEnd(o))

delete_alert(accountId, alertId) ==
    /\ pc = "idle"
    /\ Begin("delete_alert", [accountId |-> accountId, alertId |-> alertId],
          Bare("DELETE", <<BASE_URL, "/iserver/account/", accountId, "/alert/", alertId>>, 10),
          "await")

delete_alert_end(o) ==
    /\ pc = "await"
    /\ endpoint = "delete_alert"
    /\ End(o, JsonEnd(o))

get_mta_alert ==
    /\ pc = "idle"
    /\ Begin("get_mta_alert", <<>>, Bare("GET", <<BASE_URL, "/iserver/account/mta">>, 10), "await")

get_mta_alert_end(o) ==
    /\ pc = "await"
    /\ endpoint = "get_mta_alert"
    /\ End(o, JsonEnd(o))

activate_deactivate_alert(b) ==
    /\ pc = "idle"
    /\ Begin("activate_deactivate_alert", [body |-> b],
          PostJson(<<BASE_URL, "/iserver/account/alert/activate">>, Dict(b), 10), "await")

activate_deactivate_alert_end(o) ==
    /\ pc = "await"
    /\ endpoint = "activate_deactivate_alert"
    /\ End(o, JsonEnd(o))

(***************************************************************************)
(* routers/scanner.py                                                      *)
(***************************************************************************)

get_scanner_params ==
    /\ pc = "idle"
    /\ Begin("get_scanner_params", <<>>,
          Bare("GET", <<BASE_URL, "/iserver/scanner/params">>, 10), "await")

get_scanner_params_end(o) ==
    /\ pc = "await"
    /\ endpoint = "get_scanner_params"
    /\ End(o, XmlEnd(o))

run_scanner(b) ==
    /\ pc = "idle"
    /\ Begin("run_scanner", [body |-> b],
          PostXml(<<BASE_URL, "/iserver/scanner/run">>, ScannerXml(b), 30), "await")

run_scanner_end(o) ==
    /\ pc = "await"
    /\ endpoint = "run_scanner"
    /\ End(o, JsonEnd(o))

\* The handler's first await: GET /hmds/auth/init.
run_hmds_scanner(b) ==
    /\ pc = "idle"
    /\ Begin("run_hmds_scanner", [body |-> b], Bare("GET", HmdsInitPath, 10), "init")

\* The prerequisite without its init_response.raise_for_status().
InitFailed_TransportOnly(o) == o.kind = "transport"

\* init_response = await client.get(...); init_response.raise_for_status():
\* whether the try block is left before the scanner request.
InitFailed(o) == o.kind = "transport" \/ RaiseForStatus(o)

\* The prerequisite requested a second time when its first request failed,
\* where the code leaves the try block at the first failure.
run_hmds_scanner_init_Retry(o) ==
    /\ pc = "init"
    /\ endpoint = "run_hmds_scanner"
    /\ responses' = Append(responses, o)
    /\ IF InitFailed(o) /\ Len(calls) = 1
       THEN /\ calls' = Append(calls, Bare("GET", HmdsInitPath, 10))
            /\ pc' = "init"
            /\ UNCHANGED result
       ELSE IF InitFailed(o)
       THEN /\ result' = Except(o)
            /\ pc' = "done"
            /\ UNCHANGED calls
       ELSE /\ calls' = Append(calls, PostJson(HmdsScannerPath, Dict(body.body), 30))
            /\ pc' = "await"
            /\ UNCHANGED result
    /\ UNCHANGED <<endpoint, body, cfg_vars>>

\* The prerequisite ends with outcome o: the handler ends in an except clause,
\* or issues POST /hmds/scanner and awaits it.
run_hmds_scanner_init(o) ==
    /\ pc = "init"
    /\ endpoint = "run_hmds_scanner"
    /\ responses' = Append(responses, o)
    /\ IF InitFailed(o)
       THEN /\ result' = Except(o)
            /\ pc' = "done"
            /\ UNCHANGED calls
       ELSE /\ calls' = Append(calls, PostJson(HmdsScannerPath, Dict(body.body), 30))
            /\ pc' = "await"
            /\ UNCHANGED result
    /\ UNCHANGED <<endpoint, body, cfg_vars>>

run_hmds_scanner_end(o) ==
    /\ pc = "await"
    /\ endpoint = "run_hmds_scanner"
    /\ End(o, JsonEnd(o))

\* The framework sends the handler's result; nothing of the call is kept.
Respond ==
    /\ pc = "done"
    /\ pc' = "idle"
    /\ endpoint' = ""
    /\ body' = <<>>
    /\ calls' = <<>>
    /\ responses' = <<>>
    /\ result' = NoResult
    /\ UNCHANGED cfg_vars

(***************************************************************************)
(* Specifications                                                          *)
(***************************************************************************)

\* The serving process: config.py has run with neither tag variable set.
Init ==
    /\ cfg_pc = "rendered"
    /\ ALL_MODULES = <<Entry(ModA), Entry(ModB)>>
    /\ INCLUDED_TAGS = NoEnv
    /\ EXCLUDED_TAGS = NoEnv
    /\ display_modules = ExcludeFrom(IncludeBase(ALL_MODULES, INCLUDED_TAGS), EXCLUDED_TAGS)
    /\ FINAL_DESCRIPTION = RenderDescription(display_modules)
    /\ NoCall

Next ==
    \/ \E a \in AccountIds : get_alerts(a)
    \/ \E o \in Outcomes : get_alerts_end(o)
    \/ \E a \in AccountIds, b \in AlertRequests : create_or_modify_alert(a, b)
    \/ \E o \in Outcomes : create_or_modify_alert_end(o)
    \/ \E a \in AccountIds, i \in AlertIds : delete_alert(a, i)
    \/ \E o \in Outcomes : delete_alert_end(o)
    \/ get_mta_alert
    \/ \E o \in Outcomes : get_mta_alert_end(o)
    \/ \E b \in AlertActivationRequests : activate_deactivate_alert(b)
    \/ \E o \in Outcomes : activate_deactivate_alert_end(o)
    \/ get_scanner_params
    \/ \E o \in Outcomes : get_scanner_params_end(o)
    \/ \E b \in ScannerSubscriptions : run_scanner(b)
    \/ \E o \in Outcomes : run_scanner_end(o)
    \/ \E b \in HmdsScannerRequests : run_hmds_scanner(b)
    \/ \E o \in Outcomes : run_hmds_scanner_init(o)
    \/ \E o \in Outcomes : run_hmds_scanner_end(o)
    \/ Respond

Spec == Init /\ [][Next]_vars

\* The process as config.py starts to run: any environment, any catalog.
InitConfig ==
    /\ cfg_pc = "start"
    /\ ALL_MODULES \in Catalogs
    /\ \E i, j \in 0..MaxTagChars :
          /\ i + j <= MaxTagChars
          /\ \E x \in [1..i -> Chars], y \in [1..j -> Chars] :
                /\ INCLUDED_TAGS \in EnvOf(x)
                /\ EXCLUDED_TAGS \in EnvOf(y)
    /\ display_modules = <<>>
    /\ FINAL_DESCRIPTION = <<>>
    /\ NoCall

NextConfig == FilterModules \/ BuildDescription

SpecConfig == InitConfig /\ [][NextConfig]_vars

(***************************************************************************)
(* Surface configurator: claims                                            *)
(***************************************************************************)

Names(modules) == {modules[i][1] : i \in DOMAIN modules}

\* The specification's parse, stated on positions: the text with newline and
\* quote characters removed is cut at its commas, and each piece that has a
\* non-blank character gives the token running from its first to its last one.
ParsedTokens(s) ==
    LET c == SelectSeq(s, LAMBDA ch : ch \notin {"\n", "\""})
        n == Len(c)
        IsPiece(i, j) ==
            /\ i <= j
            /\ \A k \in i..j : c[k] # ","
            /\ (i = 1 \/ c[i - 1] = ",")
            /\ (j = n \/ c[j + 1] = ",")
        Inked(i, j) == {k \in i..j : c[k] # " "}
        First(i, j) == CHOOSE k \in Inked(i, j) : \A m \in Inked(i, j) : k <= m
        Last(i, j) == CHOOSE k \in Inked(i, j) : \A m \in Inked(i, j) : k >= m
    IN {SubSeq(c, First(p[1], p[2]), Last(p[1], p[2])) :
            p \in {q \in (1..n) \X (1..n) : IsPiece(q[1], q[2]) /\ Inked(q[1], q[2]) # {}}}

\* The token set of a tag variable; an absent variable has no tokens.
EnvTokens(raw) == IF raw.isNone THEN {} ELSE ParsedTokens(raw.s)

\* C5: once the visible modules are computed, their names are the catalog's
\* names, restricted to the include tokens when the raw include string is
\* non-empty, minus the exclude tokens; every visible entry is a catalog entry,
\* in catalog order.
C5_VisibleSet ==
    cfg_pc # "start" =>
        /\ Names(display_modules) =
              (IF ~INCLUDED_TAGS.isNone /\ INCLUDED_TAGS.s # <<>>
               THEN Names(ALL_MODULES) \cap EnvTokens(INCLUDED_TAGS)
               ELSE Names(ALL_MODULES))
              \ EnvTokens(EXCLUDED_TAGS)
        /\ Range(display_modules) \subseteq Range(ALL_MODULES)
        /\ Len(display_modules) = Cardinality(Names(display_modules))

\* The specification's scenario: include "a,b", exclude "b", leaves exactly a;
\* the include set also names a module the catalog lacks in other reached states.
C5_Witness ==
    /\ cfg_pc = "filtered"
    /\ ALL_MODULES = <<Entry(ModB), Entry(ModAB), Entry(ModA)>>
    /\ INCLUDED_TAGS = EnvStr(<<"a", ",", "b">>)
    /\ EXCLUDED_TAGS = EnvStr(<<"b">>)
    /\ display_modules = <<Entry(ModA)>>

VisibleFor(catalog, inc, exc) == Names(ExcludeFrom(IncludeBase(catalog, inc), exc))

\* The tokens of a set, joined by commas.
RECURSIVE JoinTokens(_)
JoinTokens(tokens) ==
    IF tokens = {} THEN <<>>
    ELSE LET tok == CHOOSE x \in tokens : TRUE
         IN IF tokens = {tok} THEN tok ELSE tok \o <<",">> \o JoinTokens(tokens \ {tok})

\* The plain ways to give the tokens of a raw string: no string at all, a
\* lone comma, the tokens joined by commas. Two pairs of raw strings with the
\* same tokens have the same plain forms, so they give the same visible set
\* when each gives the visible set of its plain forms with its tokens.
PlainForms(raw) == {NoEnv, EnvStr(<<",">>), EnvStr(JoinTokens(EnvTokens(raw)))}

\* C8 as stated: any other pair of raw strings with the same include tokens
\* and the same exclude tokens gives the same visible set.
C8_TokenSetsDecide ==
    cfg_pc = "filtered" =>
        \A inc2 \in PlainForms(INCLUDED_TAGS), exc2 \in PlainForms(EXCLUDED_TAGS) :
            (/\ EnvTokens(inc2) = EnvTokens(INCLUDED_TAGS)
             /\ EnvTokens(exc2) = EnvTokens(EXCLUDED_TAGS))
            => VisibleFor(ALL_MODULES, inc2, exc2) = Names(display_modules)

\* C8 amended: any other pair of raw strings with the same include tokens and
\* the same exclude tokens, whose raw include string is empty or absent exactly
\* when this one's is, gives the same visible set.
C8_TokenSetsAndPresenceDecide ==
    cfg_pc = "filtered" =>
        \A inc2 \in PlainForms(INCLUDED_TAGS), exc2 \in PlainForms(EXCLUDED_TAGS) :
            (/\ EnvTokens(inc2) = EnvTokens(INCLUDED_TAGS)
             /\ EnvTokens(exc2) = EnvTokens(EXCLUDED_TAGS)
             /\ Truthy(inc2) <=> Truthy(INCLUDED_TAGS))
            => VisibleFor(ALL_MODULES, inc2, exc2) = Names(display_modules)

\* Two include tokens given with a quote and a blank: the visible set is that
\* of their plain form, which is another string.
C8_Witness ==
    /\ cfg_pc = "filtered"
    /\ ALL_MODULES = <<Entry(ModB), Entry(ModA)>>
    /\ INCLUDED_TAGS = EnvStr(<<"\"", "a", " ">>)
    /\ EXCLUDED_TAGS = EnvStr(<<",">>)
    /\ Names(display_modules) = {ModA}
    /\ EnvStr(<<"a">>) \in PlainForms(INCLUDED_TAGS)
    /\ NoEnv \in PlainForms(EXCLUDED_TAGS)
    /\ EnvTokens(NoEnv) = EnvTokens(EXCLUDED_TAGS)

\* Alphabetical order of names, stated on positions: the names agree up to
\* some position, where x ends and y goes on, or x has the earlier character.
NameBefore(x, y) ==
    \E k \in 1..(Len(y)) :
        /\ k <= Len(x) + 1
        /\ \A j \in 1..(k - 1) : x[j] = y[j]
        /\ (k = Len(x) + 1 \/ CharCode(x[k]) < CharCode(y[k]))

\* The lines of a set of entries, the alphabetically first name first.
RECURSIVE LinesInOrder(_)
LinesInOrder(entries) ==
    IF entries = {} THEN <<>>
    ELSE LET first == CHOOSE e \in entries :
                          \A f \in entries : f = e \/ NameBefore(e[1], f[1])
         IN <<"* **">> \o first[1] \o <<"**: ", first[2], "\n">>
                \o LinesInOrder(entries \ {first})

\* C9: the rendered description is the preamble, the module-list header and
\* one line per visible module in ascending order of name, whatever the order
\* the visible modules are held in; an empty visible set gives no line.
C9_Description ==
    cfg_pc = "rendered" =>
        /\ FINAL_DESCRIPTION =
              <<base_description, module_list_header>> \o LinesInOrder(Range(display_modules))
        /\ display_modules = <<>> =>
              FINAL_DESCRIPTION = <<base_description, module_list_header>>

\* Three visible modules held in an order that is not alphabetical.
C9_Witness ==
    /\ cfg_pc = "rendered"
    /\ display_modules = <<Entry(ModB), Entry(ModAB), Entry(ModA)>>
    /\ FINAL_DESCRIPTION =
          <<base_description, module_list_header,
            "* **", "a", "**: ", Desc(ModA), "\n",
            "* **", "a", "b", "**: ", Desc(ModAB), "\n",
            "* **", "b", "**: ", Desc(ModB), "\n">>

(***************************************************************************)
(* Proxy endpoints: claims                                                 *)
(***************************************************************************)

\* The outcome that ended the inbound call.
LastResponse == responses[Len(responses)]

\* C1: every inbound call ends with the handler returning a response object,
\* never with an exception raised out of the handler.
C1_AlwaysAResponse ==
    pc = "done" => result.kind \in {"return", "Response"}

\* C2: when the upstream answered the last request, a 2xx answer is returned
\* unchanged (the decoded JSON value; for get_scanner_params the raw text as
\* application/xml) and any other status gives exactly the envelope
\* {error: "IBKR API Error", status_code: status, detail: text}.
C2_PassThroughOrEnvelope ==
    (pc = "done" /\ LastResponse.kind = "http") =>
        IF LastResponse.status \in 200..299
        THEN IF endpoint = "get_scanner_params"
             THEN result = ReturnResponse(LastResponse.text, "application/xml")
             ELSE /\ JsonLoads(LastResponse.text).ok
                  /\ result = Return(JsonLoads(LastResponse.text).value)
        ELSE /\ result.kind = "return"
             /\ result.json.t = "object"
             /\ DOMAIN result.json.d = {"error", "status_code", "detail"}
             /\ result.json.d["error"] = PyStr("IBKR API Error")
             /\ result.json.d["status_code"] = PyInt(LastResponse.status)
             /\ result.json.d["detail"] = PyStr(LastResponse.text)

\* C3: when the last upstream request failed at transport level, the handler
\* returns an envelope with error = "Request Error", a detail string and no
\* status_code.
C3_TransportEnvelope ==
    (pc = "done" /\ LastResponse.kind = "transport") =>
        /\ result.kind = "return"
        /\ result.json.t = "object"
        /\ DOMAIN result.json.d = {"error", "detail"}
        /\ result.json.d["error"] = PyStr("Request Error")
        /\ result.json.d["detail"] = PyStr(LastResponse.msg)
        /\ "status_code" \notin DOMAIN result.json.d

\* The primary request of run_hmds_scanner failed at transport level, after a
\* prerequisite that succeeded.
C3_Witness ==
    /\ pc = "done"
    /\ endpoint = "run_hmds_scanner"
    /\ Len(calls) = 2
    /\ LastResponse = TransportFailure("timed out")
    /\ result = Return(JObject(("error" :> PyStr("Request Error"))
                               @@ ("detail" :> PyStr("timed out"))))

\* C4: in run_hmds_scanner the request to /hmds/scanner is issued only as the
\* second request, after /hmds/auth/init was answered 2xx; when the
\* prerequisite failed, no primary request is issued and the call ends with
\* the envelope of the prerequisite's failure.
C4_PrerequisiteFirst ==
    endpoint = "run_hmds_scanner" =>
        /\ Len(calls) >= 1 /\ calls[1].path = HmdsInitPath
        /\ \A i \in DOMAIN calls :
              calls[i].path = HmdsScannerPath =>
                  /\ i = 2
                  /\ Len(responses) >= 1
                  /\ responses[1].kind = "http"
                  /\ responses[1].status \in 200..299
        /\ (Len(responses) >= 1 /\ (responses[1].kind = "transport"
                                    \/ responses[1].status \notin 200..299)) =>
              /\ pc = "done"
              /\ Len(calls) = 1
              /\ \A i \in DOMAIN calls : calls[i].path # HmdsScannerPath
              /\ result.kind = "return"
              /\ result.json.d["error"] =
                    (IF responses[1].kind = "transport"
                     THEN PyStr("Request Error") ELSE PyStr("IBKR API Error"))
              /\ result.json.d["detail"] =
                    (IF responses[1].kind = "transport"
                     THEN PyStr(responses[1].msg) ELSE PyStr(responses[1].text))
              /\ responses[1].kind = "http" =>
                    result.json.d["status_code"] = PyInt(responses[1].status)

\* The prerequisite was answered 404: the call is over after one request.
C4_Witness ==
    /\ pc = "done"
    /\ endpoint = "run_hmds_scanner"
    /\ responses = <<HttpResponse(404, TextPlain)>>
    /\ Len(calls) = 1
    /\ result.json.d["status_code"] = PyInt(404)

\* No None among the values of a dict.
NoNone(d) == \A k \in DOMAIN d : d[k] # None

\* C6: no upstream request carries a null for an absent optional field: a JSON
\* payload holds no None, nested models included, and the XML payload of a
\* scanner request without a filter list has no filter element.
C6_NoNullPlaceholders ==
    \A i \in DOMAIN calls :
        /\ calls[i].kind = "json" =>
              /\ NoNone(calls[i].json.fields)
              /\ \A k \in DOMAIN calls[i].json.lists :
                    \A j \in DOMAIN calls[i].json.lists[k] :
                        NoNone(calls[i].json.lists[k][j])
        /\ (calls[i].kind = "xml" /\ body.body.filter.isNone) =>
              "<filter>" \notin Range(calls[i].content)

\* What a handler returns for the failures of its upstream requests.
UpstreamErrorResponses == {Except(o) : o \in {x \in Outcomes : RaiseForStatus(x)}}
TransportErrorResponses == {Except(o) : o \in {x \in Outcomes : x.kind = "transport"}}

\* C7: a response returned for a success is none of the responses returned
\* for an upstream error or a transport error, and no response is returned
\* for both kinds of error.
C7_OutcomesDistinguishable ==
    /\ (pc = "done" /\ ~Failed(LastResponse) /\ result.kind # "raise") =>
          result \notin (UpstreamErrorResponses \cup TransportErrorResponses)
    /\ (pc = "done" /\ RaiseForStatus(LastResponse)) =>
          result \notin TransportErrorResponses
    /\ (pc = "done" /\ LastResponse.kind = "transport") =>
          result \notin UpstreamErrorResponses

\* The opening tags of the elements of a scanner payload.
OpeningTags ==
    {"<ScannerSubscription>", "<instrument>", "<type>", "<locationCode>", "<filter>",
     "<item>", "<name>", "<value>"}

\* The opening tags of a document, in document order.
Opened(xml) == SelectSeq(xml, LAMBDA piece : piece \in OpeningTags)

RECURSIVE ItemTags(_)
ItemTags(n) == IF n = 0 THEN <<>> ELSE <<"<item>", "<name>", "<value>">> \o ItemTags(n - 1)

\* C10: the payload of run_scanner is one ScannerSubscription element with
\* the children instrument, type, locationCode and, for a non-empty filter
\* list only, one filter element of one item (name, value) per filter: these
\* are all the elements of the document, and the item elements are as many as
\* the filters.
C10_ScannerXmlShape ==
    endpoint = "run_scanner" =>
        LET xml == calls[1].content
            f == body.body.filter
            n == IF f.isNone THEN 0 ELSE Len(f.items)
        IN /\ Opened(xml) =
                 <<"<ScannerSubscription>", "<instrument>", "<type>", "<locationCode>">>
                     \o (IF n > 0 THEN <<"<filter>">> \o ItemTags(n) ELSE <<>>)
           /\ Len(SelectSeq(xml, LAMBDA piece : piece = "<item>")) = n
           /\ n = 0 => "<filter>" \notin Range(xml)

\* The requests of the inbound call to the session-initialization path, and
\* its other (primary) requests, by their place in the call's log.
PrerequisiteRequests == {i \in DOMAIN calls : calls[i].path = HmdsInitPath}
PrimaryRequests == {i \in DOMAIN calls : calls[i].path # HmdsInitPath}

\* The state of the inbound call. The handler starts on a validated request
\* and renders its payload before its first await, so the states before the
\* first upstream request are passed within the step that leaves "Idle"; a
\* terminal state is named after the outcome of the call's last request.
CallState ==
    CASE pc = "idle" -> "Idle"
      [] pc = "init" -> "Prerequisite"
      [] pc = "await" -> "Dispatched"
      [] pc = "done" ->
            IF LastResponse.kind = "transport" THEN "TransportFailed"
            ELSE IF LastResponse.status \notin 200..299 THEN "UpstreamFailed"
            ELSE "Succeeded"

TerminalStates == {"Succeeded", "UpstreamFailed", "TransportFailed"}

\* What holds of the requests of one inbound call in each of its states.
C11_AtMostOncePerPath ==
    /\ \A i, j \in DOMAIN calls : calls[i].path = calls[j].path => i = j
    /\ Cardinality(PrerequisiteRequests) <= 1
    /\ Cardinality(PrimaryRequests) <= 1
    /\ PrerequisiteRequests # {} => endpoint = "run_hmds_scanner"
    /\ \A i \in PrerequisiteRequests, j \in PrimaryRequests : i < j
    /\ CallState = "Idle" => calls = <<>>
    /\ CallState = "Prerequisite" =>
          Len(calls) = 1 /\ PrimaryRequests = {} /\ responses = <<>>
    /\ CallState = "Dispatched" =>
          Cardinality(PrimaryRequests) = 1 /\ Len(responses) = Len(calls) - 1
    /\ CallState \in TerminalStates =>
          /\ Len(calls) >= 1
          /\ Len(responses) = Len(calls)
          /\ CallState = "Succeeded" => Cardinality(PrimaryRequests) = 1

\* What a step does to the state of the inbound call and to its requests.
C11_ForwardStep ==
    /\ CallState = "Idle" =>
          /\ CallState' \in {"Prerequisite", "Dispatched"}
          /\ Len(calls') = 1
          /\ endpoint' = "run_scanner" => calls'[1].content = ScannerXml(body'.body)
    /\ CallState = "Prerequisite" =>
          \/ /\ CallState' = "Dispatched"
             /\ Len(calls') = Len(calls) + 1
             /\ SubSeq(calls', 1, Len(calls)) = calls
          \/ /\ CallState' \in {"UpstreamFailed", "TransportFailed"}
             /\ calls' = calls
    /\ CallState = "Dispatched" =>
          /\ CallState' \in TerminalStates
          /\ calls' = calls
    /\ CallState \in TerminalStates =>
          /\ CallState' = "Idle"
          /\ calls' = <<>>

\* C11: an inbound call goes from its start through an optional prerequisite
\* request and the primary request to one terminal state, never backwards:
\* it requests every upstream path at most once (at most one prerequisite and
\* at most one primary request), and from a terminal state the only step ends
\* the call without a further upstream request.
C11_SingleForward == []C11_AtMostOncePerPath /\ [][C11_ForwardStep]_vars

\* run_hmds_scanner ended on a 500 to its primary request, after one
\* prerequisite and one primary request: the failure was not retried.
C11_Witness ==
    /\ CallState = "UpstreamFailed"
    /\ endpoint = "run_hmds_scanner"
    /\ PrerequisiteRequests = {1}
    /\ PrimaryRequests = {2}
    /\ responses = <<HttpResponse(200, TextAlert), HttpResponse(500, TextPlain)>>

====
